---- MODULE Spec2Model ----
(***************************************************************************)
(* The REST <-> bus bridging registry, the mux route table and the server *)
(* lifecycle of the ranch platform server (package server).               *)
(*                                                                         *)
(* Strings that the code concatenates (uris, methods, endpoint keys) are  *)
(* sequences of tokens, so that  uri + "-" + method  is  \o  and a path   *)
(* prefix is a sequence prefix.                                            *)
(***************************************************************************)
EXTENDS Integers, Sequences, FiniteSets, TLC

\* ------------------------------------------------------------------ bounds
\* the longest route slice any router is allowed to grow to
MaxRoutes == 2
\* the StopServer calls the embedder makes
MaxStops == 2
\* callbacks of one subscription that wait in their send at the same time
MaxBlocked == 1
\* messages no request waits for that are in a channel's queue at the same time
MaxStrays == 1

\* ------------------------------------------------------------ input values
AllMethodsWildcard == <<"*">>
MethodGet == <<"GET">>
MethodHead == <<"HEAD">>
MethodOptions == <<"OPTIONS">>

Channels == {"A", "B"}
Uris == {<<"/", "a">>}
Methods == {MethodGet, MethodHead}
StaticPrefixes == {<<"/", "a", "-">>}
\* the service channels registered with an OnServerShutdown hook
Services == {"svc"}
\* the *tls.Config values handed to CustomizeTLSConfig
TLSConfigs == {1}

\* service.RESTBridgeConfig values handed to the two attach operations
BridgeConfigs ==
    {cfg \in [ServiceChannel : Channels, Uri : Uris, Method : Methods,
              AllowHead : BOOLEAN, AllowOptions : {FALSE}] :
         cfg.AllowHead => cfg.Method = MethodGet}
NoConfig ==
    [ServiceChannel |-> "", Uri |-> <<>>, Method |-> <<>>,
     AllowHead |-> FALSE, AllowOptions |-> FALSE]

\* HTTP requests: a method and a path
RequestPaths == Uris \cup {<<"/", "a", "/", "x">>, <<"/", "a", "-", "/", "x">>, <<"/", "b">>}
Requests == [method : {MethodGet, MethodHead, MethodOptions}, path : RequestPaths]

\* ---------------------------------------------------------------- handlers
NoHandler == [kind |-> "nil", channel |-> "", prefix |-> <<>>]

\* the closure buildEndpointHandler returns: bound to the service channel and
\* to that channel's payloadChannel
buildEndpointHandler(serviceChannel) ==
    [kind |-> "bridge", channel |-> serviceChannel, prefix |-> <<>>]

\* http.StripPrefix(prefix, ...FileServer) of SetStaticRoute
staticHandler(prefix) == [kind |-> "static", channel |-> "", prefix |-> prefix]

\* ------------------------------------------------------------ mux.Route
NoName == <<>>

\* router.NewRoute(): no matcher, no name, no handler
NewRoute ==
    [name |-> NoName, kind |-> "none", path |-> <<>>,
     hasMethods |-> FALSE, methods |-> {}, handler |-> NoHandler]

Path(r, tpl) == [r EXCEPT !.kind = "exact", !.path = tpl]
PathPrefix(r, tpl) == [r EXCEPT !.kind = "prefix", !.path = tpl]
\* Methods() adds a method matcher even when the list is empty
MethodsMatcher(r, ms) == [r EXCEPT !.hasMethods = TRUE, !.methods = ms]
Name(r, n) == [r EXCEPT !.name = n]
Handler(r, h) == [r EXCEPT !.handler = h]

GetName(r) == r.name
GetPathTemplate(r) == r.path
GetHandler(r) == r.handler
\* GetMethods returns an error and nil when the route has no method matcher
GetMethods(r) == IF r.hasMethods THEN r.methods ELSE {}

IsPrefix(p, s) == Len(p) <= Len(s) /\ SubSeq(s, 1, Len(p)) = p

\* a route matches when every matcher it carries matches
RouteMatches(r, req) ==
    /\ CASE r.kind = "exact" -> req.path = r.path
         [] r.kind = "prefix" -> IsPrefix(r.path, req.path)
         [] OTHER -> TRUE
    /\ r.hasMethods => req.method \in r.methods

\* Router.Match: the first route that matches decides (NewRoute: none did)
RECURSIVE MatchRoute(_, _)
MatchRoute(routes, req) ==
    IF routes = <<>> THEN NewRoute
    ELSE IF RouteMatches(Head(routes), req) THEN Head(routes)
    ELSE MatchRoute(Tail(routes), req)

\* ServeHTTP: the matched route's handler; a route without handler, or no
\* route, ends in the not-found handler (NoHandler)
Dispatch(routes, req) == GetHandler(MatchRoute(routes, req))

\* ------------------------------------------------------------------- state
VARIABLES
    endpointHandlerMap,            \* ps.endpointHandlerMap: key -> handler
    serviceChanToBridgeEndpoints,  \* ps.serviceChanToBridgeEndpoints: channel -> keys
    messageBridgeMap,              \* ps.messageBridgeMap: channel -> MessageBridge
    listenStreams,                 \* eventbus.ListenStream calls made per channel
    router,                        \* the routes of the mux.Router ps.router points to
    newRouter,                     \* the router clearHttpChannelBridgesForService returned
    lastOp,                        \* history: the operation that ran last
    proto,                         \* history: progress of an attach; clear; attach sequence
    writer,                        \* the attach that holds ps.lock, and how far it got
    routerConcurrencyProtection,   \* *ps.routerConcurrencyProtection
    observed,                      \* history: what the last HTTP request was matched against
    ServerAvailability,            \* ps.ServerAvailability: Http, Fabric
    TLSConfig,                     \* ps.HttpServer.TLSConfig (0: nil)
    FabricConfig,                  \* ps.serverConfig.FabricConfig != nil
    fabricConn,                    \* ps.fabricConn != nil
    portTaken,                     \* another process listens on serverConfig.Port
    pc,                            \* where StartServer and its goroutines are
    SyscallChan,                   \* signals waiting in ps.SyscallChan
    connClosed,                    \* close(connClosed) has run
    listener,                      \* the HTTP listener of ps.HttpServer
    onlineEvents,                  \* payloads sent on RANCH_SERVER_ONLINE_CHANNEL
    stop,                          \* the StopServer call of each caller
    hooks,                         \* the OnServerShutdown goroutines of each call
    calls,                         \* history: how often the collaborators were called
    stopsBegun,                    \* history: StopServer calls begun
    stopsReturned,                 \* history: StopServer calls returned
    lateEffects,                   \* history: what StopServer did on a stopped server
    lastTLS,                       \* history: the last CustomizeTLSConfig call
    shutdownCtx,                   \* shutdownCtx of the StopServer call of each caller
    payloadChannel,                \* messages buffered in messageBridgeMap[c].payloadChannel
    blocked,                       \* subscription callbacks waiting to send, per channel
    requests,                      \* the HTTP requests a bridge handler is working on
    broadcast,                     \* messages handlers passed on to the others, per channel
    published,                     \* history: requests whose response was published
    panicked                       \* history: a callback found no MessageBridge to send to

regVars == <<endpointHandlerMap, serviceChanToBridgeEndpoints, messageBridgeMap,
             listenStreams, router, newRouter>>
histVars == <<lastOp, proto>>
concVars == <<writer, routerConcurrencyProtection, observed>>
lifeVars == <<ServerAvailability, TLSConfig, FabricConfig, fabricConn, portTaken, pc,
              SyscallChan, connClosed, listener, onlineEvents, stop, hooks, calls,
              stopsBegun, stopsReturned, lateEffects, lastTLS, shutdownCtx>>
bridgeVars == <<payloadChannel, blocked, requests, broadcast, published, panicked>>
vars == <<regVars, histVars, concVars, lifeVars, bridgeVars>>

NoRouter == [held |-> FALSE, routes |-> <<>>]

\* m[k] = v on a Go map
MapPut(m, k, v) == [x \in DOMAIN m \cup {k} |-> IF x = k THEN v ELSE m[x]]
\* delete(m, k) for every k of ks
MapDelete(m, ks) == [x \in DOMAIN m \ ks |-> m[x]]
EmptyMap == [x \in {} |-> 0]

\* ps.serviceChanToBridgeEndpoints[c]: nil (length 0) for a missing channel
EndpointsOf(m, c) == IF c \in DOMAIN m THEN m[c] ELSE <<>>

SeqToSet(s) == {s[i] : i \in 1..Len(s)}

\* the registry as the claims observe it: the keys of endpointHandlerMap, the
\* endpoint lists and the channels that have a MessageBridge
Registry ==
    [keys |-> DOMAIN endpointHandlerMap,
     lists |-> [c \in Channels |-> EndpointsOf(serviceChanToBridgeEndpoints, c)],
     bridges |-> DOMAIN messageBridgeMap]
NoRegistry == [keys |-> {}, lists |-> [c \in Channels |-> <<>>], bridges |-> {}]

Op(op, chan, key, applied) ==
    [op |-> op, chan |-> chan, key |-> key, applied |-> applied]
ProtoIdle ==
    [phase |-> "idle", cfg |-> NoConfig, cfg2 |-> NoConfig, loaded |-> FALSE,
     snap |-> NoRegistry]

NoWriter == [op |-> "none", cfg |-> NoConfig, stage |-> 0]
NoRequest == [method |-> <<>>, path |-> <<>>]
NotObserved == [seen |-> FALSE, req |-> NoRequest, routes |-> <<>>]

\* the correlation ids the request builder gives to HTTP requests
CorrelationIds == {"r1", "r2"}
\* a bus message on a service channel that answers no pending HTTP request
Uncorrelated == "none"
NoPendingRequest == [state |-> "none", channel |-> "", answer |-> Uncorrelated]

\* the callers of StopServer: the signal goroutine of StartServer and the embedder
StopCallers == {"signal", "embedder"}
NoStop == [at |-> "idle", late |-> FALSE]
NoTLSCall ==
    [called |-> FALSE, accepted |-> FALSE, started |-> FALSE, stopBegun |-> FALSE,
     http |-> FALSE, fabric |-> FALSE, before |-> 0]

\* NewPlatformServer: empty maps, an empty router
RegistryInit ==
    /\ endpointHandlerMap = EmptyMap
    /\ serviceChanToBridgeEndpoints = EmptyMap
    /\ messageBridgeMap = EmptyMap
    /\ listenStreams = [c \in Channels |-> 0]
    /\ router = <<>>
    /\ newRouter = NoRouter
    /\ lastOp = Op("none", "", <<>>, FALSE)
    /\ proto = ProtoIdle
    /\ writer = NoWriter
    /\ routerConcurrencyProtection = 0
    /\ observed = NotObserved
    /\ payloadChannel = [c \in Channels |-> <<>>]
    /\ blocked = [c \in Channels |-> <<>>]
    /\ requests = [id \in CorrelationIds |-> NoPendingRequest]
    /\ broadcast = [c \in Channels |-> {}]
    /\ published = {}
    /\ panicked = FALSE

\* NewPlatformServer: nothing started, both availability flags false
LifecycleInit(fabricConfig, conn, taken) ==
    /\ ServerAvailability = [Http |-> FALSE, Fabric |-> FALSE]
    /\ TLSConfig = 0
    /\ FabricConfig = fabricConfig
    /\ fabricConn = conn
    /\ portTaken = taken
    /\ pc = [main |-> "idle", fabric |-> "none", http |-> "none", signal |-> "none"]
    /\ SyscallChan = 0
    /\ connClosed = FALSE
    /\ listener = "none"
    /\ onlineEvents = <<>>
    /\ stop = [who \in StopCallers |-> NoStop]
    /\ hooks = [who \in StopCallers |-> [s \in Services |-> "none"]]
    /\ calls = [OnServerShutdown |-> 0, Shutdown |-> 0, StopFabricEndpoint |-> 0]
    /\ stopsBegun = 0
    /\ stopsReturned = 0
    /\ lateEffects = {}
    /\ lastTLS = NoTLSCall
    /\ shutdownCtx = [who \in StopCallers |-> "none"]

Init == RegistryInit /\ LifecycleInit(FALSE, FALSE, FALSE)

\* a server without broker after StartServer bound its listener and announced
\* itself: the HTTP goroutine serves, StartServer waits for connClosed
Serving ==
    /\ ServerAvailability = [Http |-> TRUE, Fabric |-> FALSE]
    /\ TLSConfig = 0
    /\ FabricConfig = FALSE
    /\ fabricConn = FALSE
    /\ portTaken = FALSE
    /\ pc = [main |-> "waiting", fabric |-> "none", http |-> "serving",
             signal |-> "waiting"]
    /\ SyscallChan = 0
    /\ connClosed = FALSE
    /\ listener = "bound"
    /\ onlineEvents = <<TRUE>>
    /\ stop = [who \in StopCallers |-> NoStop]
    /\ hooks = [who \in StopCallers |-> [s \in Services |-> "none"]]
    /\ calls = [OnServerShutdown |-> 0, Shutdown |-> 0, StopFabricEndpoint |-> 0]
    /\ stopsBegun = 0
    /\ stopsReturned = 0
    /\ lateEffects = {}
    /\ lastTLS = NoTLSCall
    /\ shutdownCtx = [who \in StopCallers |-> "none"]

InitServing == RegistryInit /\ Serving

\* ------------------------------------------------------ attach operations
endpointHandlerKey(cfg) == cfg.Uri \o <<"-">> \o cfg.Method
prefixHandlerKey(cfg) == cfg.Uri \o <<"-">> \o AllMethodsWildcard

\* the early return of both attach operations
NeverHandled(key) == FALSE
AlreadyHandled(key) == key \in DOMAIN endpointHandlerMap

permittedMethods(cfg) ==
    {cfg.Method} \cup (IF cfg.AllowHead THEN {MethodHead} ELSE {})
                 \cup (IF cfg.AllowOptions THEN {MethodOptions} ELSE {})

\* the route of SetHttpChannelBridge after its first n builder calls:
\* Path, Methods, Name, Handler
ExactRouteStage(cfg, n) ==
    LET s1 == Path(NewRoute, cfg.Uri)
        s2 == MethodsMatcher(s1, permittedMethods(cfg))
        s3 == Name(s2, endpointHandlerKey(cfg))
        s4 == Handler(s3, buildEndpointHandler(cfg.ServiceChannel))
    IN CASE n = 1 -> s1 [] n = 2 -> s2 [] n = 3 -> s3 [] OTHER -> s4

\* the route of SetHttpPathPrefixChannelBridge after its first n builder
\* calls: PathPrefix, Name, Handler
PrefixRouteStage(cfg, n) ==
    LET s1 == PathPrefix(NewRoute, cfg.Uri)
        s2 == Name(s1, prefixHandlerKey(cfg))
        s3 == Handler(s2, buildEndpointHandler(cfg.ServiceChannel))
    IN CASE n = 1 -> s1 [] n = 2 -> s2 [] OTHER -> s3

\* whether the attach finds no MessageBridge for the channel and makes one
NeedsNoBridge(c) == FALSE
AlwaysNeedsBridge(c) == TRUE
NeedsBridge(c) == c \notin DOMAIN messageBridgeMap

\* the registry part shared by both attach operations
BridgeRegistry(c, key) ==
    /\ IF NeedsBridge(c)
       THEN /\ listenStreams' = [listenStreams EXCEPT ![c] = @ + 1]
            /\ messageBridgeMap' =
                   MapPut(messageBridgeMap, c,
                          [ServiceListenStream |-> listenStreams[c] + 1,
                           payloadChannel |-> <<>>])
       ELSE UNCHANGED <<messageBridgeMap, listenStreams>>
    /\ endpointHandlerMap' = MapPut(endpointHandlerMap, key, buildEndpointHandler(c))
    /\ serviceChanToBridgeEndpoints' =
           MapPut(serviceChanToBridgeEndpoints, c,
                  Append(EndpointsOf(serviceChanToBridgeEndpoints, c), key))

\* history: an exact attach either completes a tracked sequence or starts one
ProtoAfterAttach(cfg, applied) ==
    IF proto.phase = "cleared" /\ endpointHandlerKey(proto.cfg) = endpointHandlerKey(cfg)
    THEN [proto EXCEPT !.phase = "reattached", !.cfg2 = cfg]
    ELSE [phase |-> "attached", cfg |-> cfg, cfg2 |-> NoConfig, loaded |-> FALSE,
          snap |-> Registry']

SetHttpChannelBridge(cfg) ==
    LET key == endpointHandlerKey(cfg) IN
    /\ IF AlreadyHandled(key)
       THEN UNCHANGED regVars
       ELSE /\ Len(router) < MaxRoutes
            /\ BridgeRegistry(cfg.ServiceChannel, key)
            /\ router' = Append(router, ExactRouteStage(cfg, 4))
            /\ UNCHANGED newRouter
    /\ lastOp' = Op("SetHttpChannelBridge", cfg.ServiceChannel, key, ~AlreadyHandled(key))
    /\ proto' = ProtoAfterAttach(cfg, ~AlreadyHandled(key))
    /\ UNCHANGED <<concVars, lifeVars, bridgeVars>>

SetHttpPathPrefixChannelBridge(cfg) ==
    LET key == prefixHandlerKey(cfg) IN
    /\ IF AlreadyHandled(key)
       THEN UNCHANGED regVars
       ELSE /\ Len(router) < MaxRoutes
            /\ BridgeRegistry(cfg.ServiceChannel, key)
            /\ router' = Append(router, PrefixRouteStage(cfg, 3))
            /\ UNCHANGED newRouter
    /\ lastOp' = Op("SetHttpPathPrefixChannelBridge", cfg.ServiceChannel, key,
                    ~AlreadyHandled(key))
    /\ proto' = ProtoIdle
    /\ UNCHANGED <<concVars, lifeVars, bridgeVars>>

SetStaticRoute(prefix) ==
    LET key == prefix \o <<"*">> IN
    /\ Len(router) < MaxRoutes
    /\ endpointHandlerMap' = MapPut(endpointHandlerMap, key, staticHandler(prefix))
    /\ router' = Append(router,
           Handler(Name(PathPrefix(NewRoute, prefix \o <<"/">>), key),
                   staticHandler(prefix)))
    /\ UNCHANGED <<serviceChanToBridgeEndpoints, messageBridgeMap, listenStreams,
                   newRouter>>
    /\ lastOp' = Op("SetStaticRoute", "", key, TRUE)
    /\ proto' = ProtoIdle
    /\ UNCHANGED <<concVars, lifeVars, bridgeVars>>

\* ------------------------------------------------------------------- clear
\* newRouter.Name(name).Path(path).Methods(methods...).Handler(handler)
CopyRoute(r) ==
    Handler(MethodsMatcher(Path(Name(NewRoute, GetName(r)), GetPathTemplate(r)),
                           GetMethods(r)),
            GetHandler(r))

\* ps.router.Walk: every route whose name is not in lookupMap is copied
RECURSIVE WalkCopyAll(_, _)
WalkCopyAll(routes, lookupMap) ==
    IF routes = <<>> THEN <<>>
    ELSE <<CopyRoute(Head(routes))>> \o WalkCopyAll(Tail(routes), lookupMap)

RECURSIVE WalkCopy(_, _)
WalkCopy(routes, lookupMap) ==
    IF routes = <<>> THEN <<>>
    ELSE IF GetName(Head(routes)) \in lookupMap
         THEN WalkCopy(Tail(routes), lookupMap)
         ELSE <<CopyRoute(Head(routes))>> \o WalkCopy(Tail(routes), lookupMap)

\* ps.serviceChanToBridgeEndpoints[serviceChannel] = make([]string, 0)
ResetEndpointsKeepingList(m, serviceChannel) == m
ResetEndpoints(m, serviceChannel) == MapPut(m, serviceChannel, <<>>)

\* delete(ps.endpointHandlerMap, handlerKey) for every existing mapping
DeleteEveryHandler(m, existingMappings) == EmptyMap
DeleteHandlers(m, existingMappings) == MapDelete(m, SeqToSet(existingMappings))

clearHttpChannelBridgesForService(serviceChannel) ==
    LET existingMappings == EndpointsOf(serviceChanToBridgeEndpoints, serviceChannel) IN
    /\ newRouter' = [held |-> TRUE,
                     routes |-> WalkCopy(router, SeqToSet(existingMappings))]
    /\ serviceChanToBridgeEndpoints' =
           ResetEndpoints(serviceChanToBridgeEndpoints, serviceChannel)
    /\ endpointHandlerMap' = DeleteHandlers(endpointHandlerMap, existingMappings)
    /\ UNCHANGED <<messageBridgeMap, listenStreams, router>>
    /\ lastOp' = Op("clearHttpChannelBridgesForService", serviceChannel, <<>>, TRUE)
    /\ proto' = IF proto.phase = "attached" /\ proto.cfg.ServiceChannel = serviceChannel
                THEN [proto EXCEPT !.phase = "cleared"]
                ELSE ProtoIdle
    /\ UNCHANGED <<concVars, lifeVars, bridgeVars>>

\* the caller of clearHttpChannelBridgesForService publishes the router it got
loadGlobalHttpHandler ==
    /\ newRouter.held
    /\ router' = newRouter.routes
    /\ newRouter' = NoRouter
    /\ UNCHANGED <<endpointHandlerMap, serviceChanToBridgeEndpoints,
                   messageBridgeMap, listenStreams>>
    /\ lastOp' = Op("loadGlobalHttpHandler", "", <<>>, TRUE)
    /\ proto' = IF proto.phase = "cleared"
                THEN [proto EXCEPT !.loaded = TRUE]
                ELSE ProtoIdle
    /\ UNCHANGED <<concVars, lifeVars, bridgeVars>>

\* the bridge registry under the attach, clear and publish operations
Next ==
    \/ \E cfg \in BridgeConfigs : SetHttpChannelBridge(cfg)
    \/ \E cfg \in BridgeConfigs : SetHttpPathPrefixChannelBridge(cfg)
    \/ \E c \in Channels : clearHttpChannelBridgesForService(c)
    \/ loadGlobalHttpHandler

Spec == Init /\ [][Next]_vars

\* the same with static routes
NextStatic ==
    \/ Next
    \/ \E p \in StaticPrefixes : SetStaticRoute(p)

SpecStatic == Init /\ [][NextStatic]_vars
\* ------------------------------------- the attach operations, step by step
\* While an attach holds ps.lock the HTTP server goes on matching requests
\* against ps.router, which takes no lock: every builder call on the new
\* route is a step a request can fall between.

\* SetHttpChannelBridge, lines 304-347: the lock, the early return, the registry
BeginSetHttpChannelBridge(cfg) ==
    LET key == endpointHandlerKey(cfg) IN
    /\ writer.op = "none"
    /\ IF AlreadyHandled(key)
       THEN UNCHANGED <<regVars, writer>>
       ELSE /\ Len(router) < MaxRoutes
            /\ BridgeRegistry(cfg.ServiceChannel, key)
            /\ writer' = [op |-> "SetHttpChannelBridge", cfg |-> cfg, stage |-> 0]
            /\ UNCHANGED <<router, newRouter>>
    /\ lastOp' = Op("SetHttpChannelBridge", cfg.ServiceChannel, key, ~AlreadyHandled(key))
    /\ proto' = ProtoIdle
    /\ UNCHANGED <<routerConcurrencyProtection, observed, lifeVars, bridgeVars>>

\* SetHttpPathPrefixChannelBridge, lines 374-410
BeginSetHttpPathPrefixChannelBridge(cfg) ==
    LET key == prefixHandlerKey(cfg) IN
    /\ writer.op = "none"
    /\ IF AlreadyHandled(key)
       THEN UNCHANGED <<regVars, writer>>
       ELSE /\ Len(router) < MaxRoutes
            /\ BridgeRegistry(cfg.ServiceChannel, key)
            /\ writer' = [op |-> "SetHttpPathPrefixChannelBridge", cfg |-> cfg,
                          stage |-> 0]
            /\ UNCHANGED <<router, newRouter>>
    /\ lastOp' = Op("SetHttpPathPrefixChannelBridge", cfg.ServiceChannel, key,
                    ~AlreadyHandled(key))
    /\ proto' = ProtoIdle
    /\ UNCHANGED <<routerConcurrencyProtection, observed, lifeVars, bridgeVars>>

\* atomic.CompareAndSwapInt32(ps.routerConcurrencyProtection, 0, 1), line 414
CompareAndSwapAcquire ==
    /\ writer.op = "SetHttpPathPrefixChannelBridge"
    /\ writer.stage = 0
    /\ routerConcurrencyProtection = 0
    /\ routerConcurrencyProtection' = 1
    /\ UNCHANGED <<regVars, histVars, writer, observed, lifeVars, bridgeVars>>

\* the route in ps.router after one more builder call
StagedRoutes(routes, route, stage) ==
    IF stage = 1 THEN Append(routes, route)
    ELSE [routes EXCEPT ![Len(routes)] = route]

\* one builder call of lines 357-361 or 417-420 on ps.router
BuildRoute ==
    /\ \/ /\ writer.op = "SetHttpChannelBridge"
          /\ writer.stage < 4
          /\ router' = StagedRoutes(router, ExactRouteStage(writer.cfg, writer.stage + 1),
                                    writer.stage + 1)
       \/ /\ writer.op = "SetHttpPathPrefixChannelBridge"
          /\ writer.stage < 3
          /\ routerConcurrencyProtection = 1
          /\ router' = StagedRoutes(router, PrefixRouteStage(writer.cfg, writer.stage + 1),
                                    writer.stage + 1)
    /\ writer' = [writer EXCEPT !.stage = @ + 1]
    /\ UNCHANGED <<endpointHandlerMap, serviceChanToBridgeEndpoints, messageBridgeMap,
                   listenStreams, newRouter, histVars, routerConcurrencyProtection,
                   observed, lifeVars, bridgeVars>>

\* atomic.CompareAndSwapInt32(ps.routerConcurrencyProtection, 1, 0), line 421
CompareAndSwapRelease ==
    /\ writer.op = "SetHttpPathPrefixChannelBridge"
    /\ writer.stage = 3
    /\ routerConcurrencyProtection = 1
    /\ routerConcurrencyProtection' = 0
    /\ UNCHANGED <<regVars, histVars, writer, observed, lifeVars, bridgeVars>>

\* the deferred ps.lock.Unlock()
Unlock ==
    /\ \/ writer.op = "SetHttpChannelBridge" /\ writer.stage = 4
       \/ /\ writer.op = "SetHttpPathPrefixChannelBridge"
          /\ writer.stage = 3
          /\ routerConcurrencyProtection = 0
    /\ writer' = NoWriter
    /\ UNCHANGED <<regVars, histVars, routerConcurrencyProtection, observed, lifeVars, bridgeVars>>

\* the serving HTTP server hands a request to ps.router
ServeHTTP(req) ==
    /\ pc.http = "serving"
    /\ listener = "bound"
    /\ observed' = [seen |-> TRUE, req |-> req, routes |-> router]
    /\ UNCHANGED <<regVars, histVars, writer, routerConcurrencyProtection, lifeVars, bridgeVars>>

\* the configs and requests of the step-by-step runs
ConcurrentConfigs == {cfg \in BridgeConfigs : cfg.Method = MethodGet /\ ~cfg.AllowHead}
ConcurrentRequests == {req \in Requests : req.method = MethodGet /\ req.path \in Uris}

NextConcurrent ==
    \/ \E cfg \in ConcurrentConfigs : BeginSetHttpChannelBridge(cfg)
    \/ \E cfg \in ConcurrentConfigs : BeginSetHttpPathPrefixChannelBridge(cfg)
    \/ CompareAndSwapAcquire
    \/ BuildRoute
    \/ CompareAndSwapRelease
    \/ Unlock
    \/ \E c \in Channels : writer.op = "none" /\ clearHttpChannelBridgesForService(c)
    \/ writer.op = "none" /\ loadGlobalHttpHandler
    \/ \E req \in ConcurrentRequests : ServeHTTP(req)

SpecConcurrent == InitServing /\ [][NextConcurrent]_vars

\* ---------------------------------------------------------------- lifecycle
\* the registry and the router stay as they are while the server starts and stops
LifecycleFrame == UNCHANGED <<regVars, histVars, concVars, bridgeVars>>

\* StartServer, lines 125-187: the signal channel is installed, ps.router is
\* loaded as the handler (the same router, so nothing of the registry changes),
\* and the broker, HTTP and signal goroutines are started
StartServer ==
    /\ pc.main = "idle"
    /\ pc' = [main |-> "probe",
              fabric |-> IF FabricConfig THEN "spawned" ELSE "none",
              http |-> "spawned",
              signal |-> "waiting"]
    /\ UNCHANGED <<ServerAvailability, TLSConfig, FabricConfig, fabricConn, portTaken,
                   SyscallChan, connClosed, listener, onlineEvents, stop, hooks, calls,
                   stopsBegun, stopsReturned, lateEffects, lastTLS, shutdownCtx>>
    /\ LifecycleFrame

\* the broker goroutine, line 153: the flag is set before the broker starts
FabricAvailable ==
    /\ pc.fabric = "spawned"
    /\ ServerAvailability' = [ServerAvailability EXCEPT !.Fabric = TRUE]
    /\ pc' = [pc EXCEPT !.fabric = "starting"]
    /\ UNCHANGED <<TLSConfig, FabricConfig, fabricConn, portTaken, SyscallChan,
                   connClosed, listener, onlineEvents, stop, hooks, calls, stopsBegun,
                   stopsReturned, lateEffects, lastTLS, shutdownCtx>>
    /\ LifecycleFrame

\* StartFabricEndpoint, line 155, brings the broker up and goes on serving it
StartFabricEndpointRuns ==
    /\ pc.fabric = "starting"
    /\ pc' = [pc EXCEPT !.fabric = "running"]
    /\ UNCHANGED <<ServerAvailability, TLSConfig, FabricConfig, fabricConn, portTaken,
                   SyscallChan, connClosed, listener, onlineEvents, stop, hooks, calls,
                   stopsBegun, stopsReturned, lateEffects, lastTLS, shutdownCtx>>
    /\ LifecycleFrame

\* StartFabricEndpoint returns an error without having started the broker;
\* the error is logged, lines 155-157
StartFabricEndpointFails ==
    /\ pc.fabric = "starting"
    /\ pc' = [pc EXCEPT !.fabric = "failed"]
    /\ UNCHANGED <<ServerAvailability, TLSConfig, FabricConfig, fabricConn, portTaken,
                   SyscallChan, connClosed, listener, onlineEvents, stop, hooks, calls,
                   stopsBegun, stopsReturned, lateEffects, lastTLS, shutdownCtx>>
    /\ LifecycleFrame

\* StartFabricEndpoint returns after the broker was up: it was stopped or broke
StartFabricEndpointReturns ==
    /\ pc.fabric = "running"
    /\ pc' = [pc EXCEPT !.fabric = "exited"]
    /\ UNCHANGED <<ServerAvailability, TLSConfig, FabricConfig, fabricConn, portTaken,
                   SyscallChan, connClosed, listener, onlineEvents, stop, hooks, calls,
                   stopsBegun, stopsReturned, lateEffects, lastTLS, shutdownCtx>>
    /\ LifecycleFrame

\* the HTTP goroutine, line 162: the flag is set before the listener is bound
HttpAvailable ==
    /\ pc.http = "spawned"
    /\ ServerAvailability' = [ServerAvailability EXCEPT !.Http = TRUE]
    /\ pc' = [pc EXCEPT !.http = "listen"]
    /\ UNCHANGED <<TLSConfig, FabricConfig, fabricConn, portTaken, SyscallChan,
                   connClosed, listener, onlineEvents, stop, hooks, calls, stopsBegun,
                   stopsReturned, lateEffects, lastTLS, shutdownCtx>>
    /\ LifecycleFrame

\* ListenAndServe / ListenAndServeTLS binds the listener and serves
ListenAndServe ==
    /\ pc.http = "listen"
    /\ ~portTaken
    /\ calls.Shutdown = 0
    /\ listener' = "bound"
    /\ pc' = [pc EXCEPT !.http = "serving"]
    /\ UNCHANGED <<ServerAvailability, TLSConfig, FabricConfig, fabricConn, portTaken,
                   SyscallChan, connClosed, onlineEvents, stop, hooks, calls,
                   stopsBegun, stopsReturned, lateEffects, lastTLS, shutdownCtx>>
    /\ LifecycleFrame

\* ListenAndServe returns an error without serving: the bind failed, or the
\* server was shut down already (http.ErrServerClosed); the error is logged
ListenAndServeFails ==
    /\ pc.http = "listen"
    /\ listener' = IF calls.Shutdown = 0 THEN "failed" ELSE listener
    /\ pc' = [pc EXCEPT !.http = "exited"]
    /\ UNCHANGED <<ServerAvailability, TLSConfig, FabricConfig, fabricConn, portTaken,
                   SyscallChan, connClosed, onlineEvents, stop, hooks, calls,
                   stopsBegun, stopsReturned, lateEffects, lastTLS, shutdownCtx>>
    /\ LifecycleFrame

\* an interrupt or terminate signal arrives on the signal channel
Signal ==
    /\ pc.main # "idle"
    /\ pc.signal = "waiting"
    /\ SyscallChan = 0
    /\ SyscallChan' = 1
    /\ UNCHANGED <<ServerAvailability, TLSConfig, FabricConfig, fabricConn, portTaken,
                   pc, connClosed, listener, onlineEvents, stop, hooks, calls,
                   stopsBegun, stopsReturned, lateEffects, lastTLS, shutdownCtx>>
    /\ LifecycleFrame

\* the signal goroutine, lines 182-184: the signal is taken and false is
\* sent on the readiness channel
SignalReceived ==
    /\ pc.signal = "waiting"
    /\ SyscallChan > 0
    /\ SyscallChan' = SyscallChan - 1
    /\ onlineEvents' = Append(onlineEvents, FALSE)
    /\ pc' = [pc EXCEPT !.signal = "notified"]
    /\ UNCHANGED <<ServerAvailability, TLSConfig, FabricConfig, fabricConn, portTaken,
                   connClosed, listener, stop, hooks, calls,
                   stopsBegun, stopsReturned, lateEffects, lastTLS, shutdownCtx>>
    /\ LifecycleFrame

\* net.Dial of the readiness loop, lines 191-200, succeeds when something
\* listens on the port; true is sent on the readiness channel
ServerOnline ==
    /\ pc.main = "probe"
    /\ listener = "bound" \/ portTaken
    /\ onlineEvents' = Append(onlineEvents, TRUE)
    /\ pc' = [pc EXCEPT !.main = "waiting"]
    /\ UNCHANGED <<ServerAvailability, TLSConfig, FabricConfig, fabricConn, portTaken,
                   SyscallChan, connClosed, listener, stop, hooks, calls,
                   stopsBegun, stopsReturned, lateEffects, lastTLS, shutdownCtx>>
    /\ LifecycleFrame

\* <-connClosed, line 202
StartServerReturns ==
    /\ pc.main = "waiting"
    /\ connClosed
    /\ pc' = [pc EXCEPT !.main = "returned"]
    /\ UNCHANGED <<ServerAvailability, TLSConfig, FabricConfig, fabricConn, portTaken,
                   SyscallChan, connClosed, listener, onlineEvents, stop, hooks, calls,
                   stopsBegun, stopsReturned, lateEffects, lastTLS, shutdownCtx>>
    /\ LifecycleFrame

\* whether this caller may enter StopServer now: the signal goroutine at
\* line 185, the embedding program at any time after it called StartServer
MayStop(who) ==
    /\ stop[who].at = "idle"
    /\ IF who = "signal"
       THEN pc.signal = "notified"
       ELSE pc.main # "idle" /\ stopsBegun < MaxStops

\* a StopServer call has returned, both availability flags are false and the
\* HTTP and broker goroutines have come to their end
AlreadyStopped ==
    /\ stopsReturned > 0
    /\ ~ServerAvailability.Http /\ ~ServerAvailability.Fabric
    /\ pc.http = "exited" /\ pc.fabric \in {"none", "failed", "exited"}

\* what a StopServer call that began on a stopped server adds to lateEffects
Late(who, effects) == IF stop[who].late THEN lateEffects \cup effects ELSE lateEffects

\* StopServer, lines 207-208
StopServerBegins(who) ==
    /\ MayStop(who)
    /\ stop' = [stop EXCEPT ![who] = [at |-> "hooks", late |-> AlreadyStopped]]
    /\ stopsBegun' = stopsBegun + 1
    /\ shutdownCtx' = [shutdownCtx EXCEPT ![who] = "active"]
    /\ ServerAvailability' = [ServerAvailability EXCEPT !.Http = FALSE]
    /\ pc' = IF who = "signal" THEN [pc EXCEPT !.signal = "stopping"] ELSE pc
    /\ UNCHANGED <<TLSConfig, FabricConfig, fabricConn, portTaken, SyscallChan,
                   connClosed, listener, onlineEvents, hooks, calls, stopsReturned,
                   lateEffects, lastTLS>>
    /\ LifecycleFrame

\* StopServer, lines 225-241: one goroutine per service with a shutdown hook
StopServerHooks(who) ==
    /\ stop[who].at = "hooks"
    /\ stop' = [stop EXCEPT ![who].at = "shutdown"]
    /\ hooks' = [hooks EXCEPT ![who] = [s \in Services |-> "running"]]
    /\ calls' = [calls EXCEPT !.OnServerShutdown = @ + Cardinality(Services)]
    /\ lateEffects' = Late(who, {"OnServerShutdown"})
    /\ UNCHANGED <<ServerAvailability, TLSConfig, FabricConfig, fabricConn, portTaken,
                   pc, SyscallChan, connClosed, listener, onlineEvents, stopsBegun,
                   stopsReturned, lastTLS, shutdownCtx>>
    /\ LifecycleFrame

\* h.OnServerShutdown() returns and wg.Done() runs, lines 235-237
OnServerShutdownReturns(who, s) ==
    /\ hooks[who][s] = "running"
    /\ hooks' = [hooks EXCEPT ![who][s] = "done"]
    /\ UNCHANGED <<ServerAvailability, TLSConfig, FabricConfig, fabricConn, portTaken,
                   pc, SyscallChan, connClosed, listener, onlineEvents, stop, calls,
                   stopsBegun, stopsReturned, lateEffects, lastTLS, shutdownCtx>>
    /\ LifecycleFrame

\* StopServer, line 244: ps.HttpServer.Shutdown(shutdownCtx)
StopServerShutdown(who) ==
    /\ stop[who].at = "shutdown"
    /\ stop' = [stop EXCEPT ![who].at = "broker"]
    /\ calls' = [calls EXCEPT !.Shutdown = @ + 1]
    /\ listener' = IF listener = "bound" THEN "closed" ELSE listener
    /\ pc' = IF pc.http = "serving" THEN [pc EXCEPT !.http = "exited"] ELSE pc
    /\ lateEffects' = Late(who, {"Shutdown"})
    /\ UNCHANGED <<ServerAvailability, TLSConfig, FabricConfig, fabricConn, portTaken,
                   SyscallChan, connClosed, onlineEvents, hooks, stopsBegun,
                   stopsReturned, lastTLS, shutdownCtx>>
    /\ LifecycleFrame

\* StopServer, lines 249-255: the broker is stopped when there is a connection
\* listener
StopServerBroker(who) ==
    /\ stop[who].at = "broker"
    /\ stop' = [stop EXCEPT ![who].at = "wait"]
    /\ IF fabricConn
       THEN /\ calls' = [calls EXCEPT !.StopFabricEndpoint = @ + 1]
            /\ ServerAvailability' = [ServerAvailability EXCEPT !.Fabric = FALSE]
            /\ lateEffects' = Late(who, {"StopFabricEndpoint"}
                                         \cup IF ServerAvailability.Fabric
                                              THEN {"Fabric"} ELSE {})
       ELSE UNCHANGED <<calls, ServerAvailability, lateEffects>>
    /\ UNCHANGED <<TLSConfig, FabricConfig, fabricConn, portTaken, pc, SyscallChan,
                   connClosed, listener, onlineEvents, hooks, stopsBegun,
                   stopsReturned, lastTLS, shutdownCtx>>
    /\ LifecycleFrame

\* StopServer, line 259: wg.Wait() returns when every hook of this call is done
StopServerReturns(who) ==
    /\ stop[who].at = "wait"
    /\ \A s \in Services : hooks[who][s] = "done"
    /\ stop' = [stop EXCEPT ![who] = NoStop]
    /\ hooks' = [hooks EXCEPT ![who] = [s \in Services |-> "none"]]
    /\ stopsReturned' = stopsReturned + 1
    /\ shutdownCtx' = [shutdownCtx EXCEPT ![who] = "cancelled"]
    /\ IF who = "signal"
       THEN /\ connClosed' = TRUE
            /\ pc' = [pc EXCEPT !.signal = "done"]
       ELSE UNCHANGED <<connClosed, pc>>
    /\ UNCHANGED <<ServerAvailability, TLSConfig, FabricConfig, fabricConn, portTaken,
                   SyscallChan, listener, onlineEvents, calls, stopsBegun, lateEffects,
                   lastTLS>>
    /\ LifecycleFrame

\* the deadline of shutdownCtx passes, lines 211-222: the expiry is logged
DeadlineExceeded(who) ==
    /\ shutdownCtx[who] = "active"
    /\ shutdownCtx' = [shutdownCtx EXCEPT ![who] = "expired"]
    /\ UNCHANGED <<ServerAvailability, TLSConfig, FabricConfig, fabricConn, portTaken,
                   pc, SyscallChan, connClosed, listener, onlineEvents, stop, hooks,
                   calls, stopsBegun, stopsReturned, lateEffects, lastTLS>>
    /\ LifecycleFrame

\* the condition under which CustomizeTLSConfig refuses
ServerRunning == ServerAvailability.Http \/ ServerAvailability.Fabric

CustomizeTLSConfig(tls) ==
    /\ TLSConfig' = IF ServerRunning THEN TLSConfig ELSE tls
    /\ lastTLS' = [called |-> TRUE, accepted |-> ~ServerRunning,
                   started |-> pc.main # "idle", stopBegun |-> stopsBegun > 0,
                   http |-> ServerAvailability.Http,
                   fabric |-> ServerAvailability.Fabric, before |-> TLSConfig]
    /\ UNCHANGED <<ServerAvailability, FabricConfig, fabricConn, portTaken, pc,
                   SyscallChan, connClosed, listener, onlineEvents, stop, hooks, calls,
                   stopsBegun, stopsReturned, lateEffects, shutdownCtx>>
    /\ LifecycleFrame

NextLifecycle ==
    \/ StartServer
    \/ FabricAvailable
    \/ StartFabricEndpointRuns
    \/ StartFabricEndpointFails
    \/ StartFabricEndpointReturns
    \/ HttpAvailable
    \/ ListenAndServe
    \/ ListenAndServeFails
    \/ Signal
    \/ SignalReceived
    \/ ServerOnline
    \/ StartServerReturns
    \/ \E who \in StopCallers : StopServerBegins(who)
    \/ \E who \in StopCallers : StopServerHooks(who)
    \/ \E who \in StopCallers, s \in Services : OnServerShutdownReturns(who, s)
    \/ \E who \in StopCallers : StopServerShutdown(who)
    \/ \E who \in StopCallers : StopServerBroker(who)
    \/ \E who \in StopCallers : StopServerReturns(who)
    \/ \E tls \in TLSConfigs : CustomizeTLSConfig(tls)

\* a server with or without broker configuration, on a free or a taken port
InitLifecycle ==
    /\ RegistryInit
    /\ \E fabricConfig \in BOOLEAN, conn \in BOOLEAN, taken \in BOOLEAN :
           /\ conn => fabricConfig
           /\ LifecycleInit(fabricConfig, conn, taken)

SpecLifecycle == InitLifecycle /\ [][NextLifecycle]_vars

\* ------------------------------------------------------------ message bridge
\* make(chan *model.Message, 100)
payloadChannelCapacity == 100

\* the subscription callback of lines 322-324 and 392-394, called by the bus
\* with a message of the channel: a send on the buffered payloadChannel, which
\* goes through when there is room and otherwise waits for room
HandleMessageDropped(c, msg) ==
    /\ c \in DOMAIN messageBridgeMap
    /\ UNCHANGED <<payloadChannel, blocked>>
HandleMessage(c, msg) ==
    /\ c \in DOMAIN messageBridgeMap
    /\ IF Len(payloadChannel[c]) < payloadChannelCapacity
       THEN /\ payloadChannel' = [payloadChannel EXCEPT ![c] = Append(@, msg)]
            /\ UNCHANGED blocked
       ELSE /\ Len(blocked[c]) < MaxBlocked
            /\ blocked' = [blocked EXCEPT ![c] = Append(@, msg)]
            /\ UNCHANGED payloadChannel

\* the bus delivers a message of channel c to the bridge's subscription: the
\* response to a waiting request, published once, or a message no request
\* waits for
Deliver(c, msg) ==
    /\ msg \in CorrelationIds =>
           /\ requests[msg].state \in {"waiting", "timedout"}
           /\ requests[msg].channel = c
           /\ msg \notin published
    /\ HandleMessage(c, msg)
    /\ published' = IF msg \in CorrelationIds THEN published \cup {msg} ELSE published
    /\ UNCHANGED <<requests, broadcast>>
    /\ UNCHANGED <<regVars, histVars, concVars, lifeVars, panicked>>

\* a callback that waited in its send gets the room a receiver made
SendCompletes(c) ==
    /\ blocked[c] # <<>>
    /\ Len(payloadChannel[c]) < payloadChannelCapacity
    /\ payloadChannel' = [payloadChannel EXCEPT ![c] = Append(@, Head(blocked[c]))]
    /\ blocked' = [blocked EXCEPT ![c] = Tail(@)]
    /\ UNCHANGED <<requests, broadcast, published>>
    /\ UNCHANGED <<regVars, histVars, concVars, lifeVars, panicked>>

\* the router dispatches an HTTP request to the handler of an endpoint bridged
\* to channel c; the handler publishes the bus request with correlation id id
\* and starts to wait
HandlerStart(id, c) ==
    /\ requests[id].state = "none"
    /\ \E req \in Requests : Dispatch(router, req) = buildEndpointHandler(c)
    /\ requests' = [requests EXCEPT ![id] = [state |-> "waiting", channel |-> c,
                                             answer |-> Uncorrelated]]
    /\ UNCHANGED <<payloadChannel, blocked, broadcast, published>>
    /\ UNCHANGED <<regVars, histVars, concVars, lifeVars, panicked>>

\* a waiting handler receives the next message of the queue: its own answers
\* the request, any other is passed on to the handlers of the channel
HandlerReceive(id) ==
    LET c == requests[id].channel IN
    /\ requests[id].state = "waiting"
    /\ payloadChannel[c] # <<>>
    /\ payloadChannel' = [payloadChannel EXCEPT ![c] = Tail(@)]
    /\ IF Head(payloadChannel[c]) = id
       THEN /\ requests' = [requests EXCEPT ![id].state = "answered",
                                            ![id].answer = Head(payloadChannel[c])]
            /\ UNCHANGED broadcast
       ELSE /\ broadcast' = [broadcast EXCEPT ![c] = @ \cup {Head(payloadChannel[c])}]
            /\ UNCHANGED requests
    /\ UNCHANGED <<blocked, published>>
    /\ UNCHANGED <<regVars, histVars, concVars, lifeVars, panicked>>

\* a waiting handler finds its message among those the others passed on
HandlerTakesForwarded(id) ==
    LET c == requests[id].channel IN
    /\ requests[id].state = "waiting"
    /\ id \in broadcast[c]
    /\ broadcast' = [broadcast EXCEPT ![c] = @ \ {id}]
    /\ requests' = [requests EXCEPT ![id].state = "answered", ![id].answer = id]
    /\ UNCHANGED <<payloadChannel, blocked, published>>
    /\ UNCHANGED <<regVars, histVars, concVars, lifeVars, panicked>>

\* the bridge timeout of a waiting handler passes: 504
HandlerTimeout(id) ==
    /\ requests[id].state = "waiting"
    /\ requests' = [requests EXCEPT ![id].state = "timedout"]
    /\ UNCHANGED <<payloadChannel, blocked, broadcast, published>>
    /\ UNCHANGED <<regVars, histVars, concVars, lifeVars, panicked>>

\* how many messages no request waits for are on their way through channel c
Strays(c) ==
    Cardinality({i \in DOMAIN payloadChannel[c] : payloadChannel[c][i] = Uncorrelated})
    + Cardinality({i \in DOMAIN blocked[c] : blocked[c][i] = Uncorrelated})

\* several requests in flight on bridged channels, their responses and a few
\* other messages arriving in any order
NextBridge ==
    \/ \E cfg \in ConcurrentConfigs : SetHttpChannelBridge(cfg)
    \/ \E cfg \in ConcurrentConfigs : SetHttpPathPrefixChannelBridge(cfg)
    \/ \E c \in Channels, msg \in CorrelationIds : Deliver(c, msg)
    \/ \E c \in Channels : Strays(c) < MaxStrays /\ Deliver(c, Uncorrelated)
    \/ \E id \in CorrelationIds, c \in Channels : HandlerStart(id, c)
    \/ \E id \in CorrelationIds : HandlerReceive(id)
    \/ \E id \in CorrelationIds : HandlerTakesForwarded(id)
    \/ \E id \in CorrelationIds : HandlerTimeout(id)

SpecBridge == InitServing /\ [][NextBridge]_vars

\* a channel whose messages nobody asked for keep coming, with handlers
\* receiving or not
NextOverflow ==
    \/ \E cfg \in ConcurrentConfigs : SetHttpChannelBridge(cfg)
    \/ \E c \in Channels : Deliver(c, Uncorrelated)
    \/ \E c \in Channels : SendCompletes(c)
    \/ \E id \in CorrelationIds, c \in Channels : HandlerStart(id, c)
    \/ \E id \in CorrelationIds : HandlerReceive(id)
    \/ \E id \in CorrelationIds : HandlerTimeout(id)

SpecOverflow == InitServing /\ [][NextOverflow]_vars

\* --------------------------------------------------- subscribing step by step
\* how writer names an attach that has registered its callback and has not
\* stored the MessageBridge yet
HandleStage(op) ==
    IF op = "SetHttpChannelBridge"
    THEN "SetHttpChannelBridge.Handle"
    ELSE "SetHttpPathPrefixChannelBridge.Handle"
AttachOf(stage) ==
    IF stage = "SetHttpChannelBridge.Handle"
    THEN "SetHttpChannelBridge"
    ELSE "SetHttpPathPrefixChannelBridge"
HandlerKeyOf(op, cfg) ==
    IF op = "SetHttpChannelBridge" THEN endpointHandlerKey(cfg) ELSE prefixHandlerKey(cfg)

\* lines 304-324 and 374-394 of an attach that creates the bridge of its
\* channel: the lock, the checks, ListenStream, and handler.Handle, which
\* registers the callback with the bus
ListenStreamHandle(cfg, op) ==
    /\ writer.op = "none"
    /\ ~AlreadyHandled(HandlerKeyOf(op, cfg))
    /\ NeedsBridge(cfg.ServiceChannel)
    /\ Len(router) < MaxRoutes
    /\ listenStreams' = [listenStreams EXCEPT ![cfg.ServiceChannel] = @ + 1]
    /\ writer' = [op |-> HandleStage(op), cfg |-> cfg, stage |-> 0]
    /\ UNCHANGED <<endpointHandlerMap, serviceChanToBridgeEndpoints, messageBridgeMap,
                   router, newRouter, histVars, routerConcurrencyProtection, observed,
                   lifeVars, bridgeVars>>

\* lines 326-347 and 396-410: the MessageBridge is stored, then the handler
\* and the endpoint key
StoreBridge ==
    LET cfg == writer.cfg
        op == AttachOf(writer.op)
        c == cfg.ServiceChannel
        key == HandlerKeyOf(op, cfg)
    IN /\ writer.op \in {HandleStage("SetHttpChannelBridge"),
                          HandleStage("SetHttpPathPrefixChannelBridge")}
       /\ messageBridgeMap' =
              MapPut(messageBridgeMap, c,
                     [ServiceListenStream |-> listenStreams[c], payloadChannel |-> <<>>])
       /\ endpointHandlerMap' = MapPut(endpointHandlerMap, key, buildEndpointHandler(c))
       /\ serviceChanToBridgeEndpoints' =
              MapPut(serviceChanToBridgeEndpoints, c,
                     Append(EndpointsOf(serviceChanToBridgeEndpoints, c), key))
       /\ writer' = [op |-> op, cfg |-> cfg, stage |-> 0]
       /\ lastOp' = Op(op, c, key, TRUE)
       /\ proto' = ProtoIdle
       /\ UNCHANGED <<listenStreams, router, newRouter, routerConcurrencyProtection,
                      observed, lifeVars, bridgeVars>>

\* the bus calls the callback of a subscription whose MessageBridge is not in
\* messageBridgeMap: ps.messageBridgeMap[c] is nil and .payloadChannel panics
HandleMessageNoBridge(c) ==
    /\ listenStreams[c] > 0
    /\ c \notin DOMAIN messageBridgeMap
    /\ panicked' = TRUE
    /\ UNCHANGED <<payloadChannel, blocked, requests, broadcast, published>>
    /\ UNCHANGED <<regVars, histVars, concVars, lifeVars>>

\* attaches taken step by step while the bus delivers messages of the channels
NextSubscribe ==
    \/ \E cfg \in ConcurrentConfigs :
           /\ AlreadyHandled(endpointHandlerKey(cfg)) \/ ~NeedsBridge(cfg.ServiceChannel)
           /\ BeginSetHttpChannelBridge(cfg)
    \/ \E cfg \in ConcurrentConfigs :
           /\ AlreadyHandled(prefixHandlerKey(cfg)) \/ ~NeedsBridge(cfg.ServiceChannel)
           /\ BeginSetHttpPathPrefixChannelBridge(cfg)
    \/ \E cfg \in ConcurrentConfigs : ListenStreamHandle(cfg, "SetHttpChannelBridge")
    \/ \E cfg \in ConcurrentConfigs :
           ListenStreamHandle(cfg, "SetHttpPathPrefixChannelBridge")
    \/ StoreBridge
    \/ CompareAndSwapAcquire
    \/ BuildRoute
    \/ CompareAndSwapRelease
    \/ Unlock
    \/ \E c \in Channels : Strays(c) < MaxStrays /\ Deliver(c, Uncorrelated)
    \/ \E c \in Channels : HandleMessageNoBridge(c)

SpecSubscribe == InitServing /\ [][NextSubscribe]_vars

\* a serving server with bridges that is stopped, by a signal or by the
\* embedder, while the bus goes on delivering the messages of the channels
NextShutdown ==
    \/ \E cfg \in ConcurrentConfigs : SetHttpChannelBridge(cfg)
    \/ \E c \in Channels : Strays(c) < MaxStrays /\ Deliver(c, Uncorrelated)
    \/ Signal
    \/ SignalReceived
    \/ StartServerReturns
    \/ \E who \in StopCallers : StopServerBegins(who)
    \/ \E who \in StopCallers : StopServerHooks(who)
    \/ \E who \in StopCallers, s \in Services : OnServerShutdownReturns(who, s)
    \/ \E who \in StopCallers : StopServerShutdown(who)
    \/ \E who \in StopCallers : StopServerBroker(who)
    \/ \E who \in StopCallers : StopServerReturns(who)

SpecShutdown == InitServing /\ [][NextShutdown]_vars

\* a server that is started and then stopped by a signal: StartServer, its
\* goroutines, and the StopServer call of the signal goroutine with its deadline
NextSignal ==
    \/ StartServer
    \/ FabricAvailable
    \/ StartFabricEndpointRuns
    \/ StartFabricEndpointFails
    \/ StartFabricEndpointReturns
    \/ HttpAvailable
    \/ ListenAndServe
    \/ ListenAndServeFails
    \/ Signal
    \/ SignalReceived
    \/ ServerOnline
    \/ StartServerReturns
    \/ StopServerBegins("signal")
    \/ StopServerHooks("signal")
    \/ \E s \in Services : OnServerShutdownReturns("signal", s)
    \/ StopServerShutdown("signal")
    \/ StopServerBroker("signal")
    \/ StopServerReturns("signal")
    \/ DeadlineExceeded("signal")

\* the Go scheduler runs every goroutine that can take a step, and time passes;
\* nothing makes a signal arrive, a service's OnServerShutdown hook return, or
\* a running broker end
FairSignal ==
    /\ WF_vars(StartServer)
    /\ WF_vars(FabricAvailable)
    /\ WF_vars(StartFabricEndpointRuns \/ StartFabricEndpointFails)
    /\ WF_vars(HttpAvailable)
    /\ WF_vars(ListenAndServe \/ ListenAndServeFails)
    /\ WF_vars(SignalReceived)
    /\ WF_vars(ServerOnline)
    /\ WF_vars(StartServerReturns)
    /\ WF_vars(StopServerBegins("signal"))
    /\ WF_vars(StopServerHooks("signal"))
    /\ WF_vars(StopServerShutdown("signal"))
    /\ WF_vars(StopServerBroker("signal"))
    /\ WF_vars(StopServerReturns("signal"))
    /\ WF_vars(DeadlineExceeded("signal"))

SpecSignal == InitLifecycle /\ [][NextSignal]_vars /\ FairSignal

\* ------------------------------------------------------------------ claims
Endpoints(c) == EndpointsOf(serviceChanToBridgeEndpoints, c)
Bridged(key) == \E c \in Channels : key \in SeqToSet(Endpoints(c))
OccurrencesIn(m, key) ==
    Cardinality({<<c, i>> \in Channels \X (1..MaxRoutes + 2) :
                    i <= Len(EndpointsOf(m, c)) /\ EndpointsOf(m, c)[i] = key})
Occurrences(key) == OccurrencesIn(serviceChanToBridgeEndpoints, key)
AllKeys == UNION {SeqToSet(Endpoints(c)) : c \in Channels}

\* C1: every endpoint name in any serviceChanToBridgeEndpoints list is a key
\* of endpointHandlerMap
C1_EndpointsHaveHandlers ==
    \A c \in Channels : SeqToSet(Endpoints(c)) \subseteq DOMAIN endpointHandlerMap

\* a channel keeps its endpoints while the other channel has just been cleared
C1_Witness ==
    /\ lastOp.op = "clearHttpChannelBridgesForService"
    /\ \E c \in Channels : c # lastOp.chan /\ Endpoints(c) # <<>>

\* C2 as claimed: a channel has a MessageBridge iff its endpoint list is not
\* empty
C2_BridgeIffEndpoints ==
    \A c \in Channels : (c \in DOMAIN messageBridgeMap) <=> (Endpoints(c) # <<>>)

\* C2 as amended: a channel whose endpoint list is not empty has a
\* MessageBridge, and right after clearHttpChannelBridgesForService(c) the
\* list of c is empty
C2_EndpointsImplyBridge ==
    /\ \A c \in Channels : Endpoints(c) # <<>> => c \in DOMAIN messageBridgeMap
    /\ lastOp.op = "clearHttpChannelBridgesForService" => Endpoints(lastOp.chan) = <<>>

\* a cleared channel that keeps its bridge beside a channel with endpoints
C2_Witness ==
    /\ lastOp.op = "clearHttpChannelBridgesForService"
    /\ lastOp.chan \in DOMAIN messageBridgeMap
    /\ \E c \in Channels : Endpoints(c) # <<>> /\ c \in DOMAIN messageBridgeMap

\* C3: SetHttpChannelBridge for the (uri, method) of an endpoint that is
\* already bridged changes nothing: the handler entry, the endpoint lists,
\* the bus subscriptions and the route table stay as they were, and the name
\* occurs once across the lists
C3_SecondAttachNoOp ==
    [][(lastOp'.op = "SetHttpChannelBridge" /\ Bridged(lastOp'.key)) =>
          /\ endpointHandlerMap' = endpointHandlerMap
          /\ serviceChanToBridgeEndpoints' = serviceChanToBridgeEndpoints
          /\ messageBridgeMap' = messageBridgeMap
          /\ listenStreams' = listenStreams
          /\ router' = router
          /\ OccurrencesIn(serviceChanToBridgeEndpoints', lastOp'.key) = 1]_vars

\* a refused second attach that named another channel than the one bridged
C3_Witness ==
    /\ lastOp.op = "SetHttpChannelBridge"
    /\ ~lastOp.applied
    /\ \E c \in Channels : c # lastOp.chan /\ lastOp.key \in SeqToSet(Endpoints(c))

\* C4: every endpoint name is in the list of at most one channel, at most once
C4_OneChannelPerEndpoint == \A key \in AllKeys : Occurrences(key) = 1

\* both channels hold endpoints and an attach has just been refused
C4_Witness ==
    /\ \A c \in Channels : Endpoints(c) # <<>>
    /\ lastOp.op \in {"SetHttpChannelBridge", "SetHttpPathPrefixChannelBridge"}
    /\ ~lastOp.applied

\* C5 as claimed, for the table clearHttpChannelBridgesForService(c) returns
\* (the one loadGlobalHttpHandler then serves): no request is dispatched to a
\* route of a former endpoint of c, and every request that was dispatched to
\* an endpoint of another channel is still dispatched to the same handler
C5_ClearKeepsOtherEndpoints ==
    [][lastOp'.op = "clearHttpChannelBridgesForService" =>
          \A req \in Requests :
              LET victims == SeqToSet(Endpoints(lastOp'.chan))
                  before == MatchRoute(router, req)
                  after == MatchRoute(newRouter'.routes, req)
              IN /\ GetName(after) \notin victims
                 /\ (GetName(before) \in AllKeys \ victims) =>
                        GetHandler(after) = GetHandler(before)]_vars

\* C8 as claimed: SetHttpChannelBridge(cfg); clear(cfg.ServiceChannel);
\* SetHttpChannelBridge(cfg) ends in the registry the first attach left
C8_AttachClearAttach ==
    (proto.phase = "reattached" /\ proto.cfg2 = proto.cfg) => Registry = proto.snap

\* the channel of cfg is bridged to no endpoint but cfg's own when the
\* sequence starts
C8_OnlyOwnEndpoint ==
    SeqToSet(proto.snap.lists[proto.cfg.ServiceChannel])
        \subseteq {endpointHandlerKey(proto.cfg)}

\* C8 as amended: the same, provided the first attach leaves the channel of
\* cfg with no endpoint other than cfg's own
C8_AttachClearAttachAlone ==
    (proto.phase = "reattached" /\ proto.cfg2 = proto.cfg /\ C8_OnlyOwnEndpoint)
        => Registry = proto.snap

\* the sequence has run on a channel while the other channel holds an endpoint
C8_Witness ==
    /\ proto.phase = "reattached"
    /\ proto.cfg2 = proto.cfg
    /\ C8_OnlyOwnEndpoint
    /\ Endpoints(proto.cfg.ServiceChannel) = <<endpointHandlerKey(proto.cfg)>>
    /\ \E c \in Channels : c # proto.cfg.ServiceChannel /\ Endpoints(c) # <<>>

\* the replacement protocol has run: (uri, method) was bridged to channel A,
\* A was cleared, and (uri, method) was attached to another channel B; no
\* route under another name matches the request (method, uri)
C9_Request == [method |-> proto.cfg.Method, path |-> proto.cfg.Uri]
C9_Replaced ==
    /\ proto.phase = "reattached"
    /\ proto.cfg2.ServiceChannel # proto.cfg.ServiceChannel
    /\ endpointHandlerKey(proto.cfg)
           \in SeqToSet(proto.snap.lists[proto.cfg.ServiceChannel])
    /\ \A i \in 1..Len(router) :
           GetName(router[i]) # endpointHandlerKey(proto.cfg)
               => ~RouteMatches(router[i], C9_Request)

RouteComplete(r) ==
    /\ r.kind # "none"
    /\ GetName(r) # NoName
    /\ GetHandler(r) # NoHandler
    /\ r.kind = "exact" => r.hasMethods

\* C6 as claimed: the route table a request is matched against holds only
\* routes that carry their full path matcher, method set, name and handler
C6_RequestsSeeCompleteRoutes ==
    observed.seen => \A i \in 1..Len(observed.routes) : RouteComplete(observed.routes[i])
\* C7 as claimed: a CustomizeTLSConfig call made after StartServer was called
\* and before any StopServer is refused and leaves TLSConfig as it was, and a
\* call stores the config only when both availability flags are false
C7_TLSRefusedOnceStarted ==
    lastTLS.called =>
        /\ (lastTLS.started /\ ~lastTLS.stopBegun) =>
               ~lastTLS.accepted /\ TLSConfig = lastTLS.before
        /\ lastTLS.accepted => ~lastTLS.http /\ ~lastTLS.fabric

\* C10 as claimed: a StopServer call that begins after a StopServer call has
\* returned invokes no shutdown hook, no HTTP shutdown and no broker stop, and
\* changes no availability flag
C10_SecondStopNoOp == lateEffects = {}
\* C12 as claimed: a StopServer call that has come to wait for the shutdown
\* hooks returns in the end, also when a hook never completes (the deadline
\* of shutdownCtx passes instead)
C12_StopServerReturns ==
    (stop["signal"].at = "wait") ~> (stop["signal"].at = "idle")

\* C13 as claimed: every StopServer call has published false on the readiness
\* channel by the time it sets ServerAvailability.Http to false, so there are
\* at least as many false payloads as StopServer calls begun
C13_StopPublishesOffline ==
    Cardinality({i \in DOMAIN onlineEvents : ~onlineEvents[i]}) >= stopsBegun

\* C14 as claimed: Http rises only once the listener is bound and Fabric only
\* once the broker runs, and after a failed bind or a failed broker start the
\* flag is false
C14_AvailableOnlyWhenUp ==
    [][/\ (~ServerAvailability.Http /\ ServerAvailability'.Http) => listener' = "bound"
       /\ (~ServerAvailability.Fabric /\ ServerAvailability'.Fabric) =>
              pc'.fabric = "running"
       /\ listener' = "failed" => ~ServerAvailability'.Http
       /\ pc'.fabric = "failed" => ~ServerAvailability'.Fabric]_vars

\* whether no two routes of a table carry the same name
UniqueNames(routes) ==
    \A i, j \in 1..Len(routes) : GetName(routes[i]) = GetName(routes[j]) => i = j

\* C16 as claimed: in the served table and in the table the last
\* clearHttpChannelBridgesForService returned, no two routes have the same name
C16_RouteNamesUnique == UniqueNames(router) /\ UniqueNames(newRouter.routes)

\* C18 as claimed: clearHttpChannelBridgesForService(c) leaves the old table as
\* it is, and every route of it whose name is not an endpoint of c is in the
\* returned table with the same name, match target and kind, methods and handler
C18_ClearCopiesOtherRoutes ==
    [][lastOp'.op = "clearHttpChannelBridgesForService" =>
          /\ router' = router
          /\ \A i \in 1..Len(router) :
                 GetName(router[i]) \notin SeqToSet(Endpoints(lastOp'.chan)) =>
                     \E j \in 1..Len(newRouter'.routes) :
                         newRouter'.routes[j] = router[i]]_vars

\* C19: no attach and no clearHttpChannelBridgesForService removes or replaces
\* the MessageBridge of a channel that has one, and no channel is ever
\* subscribed to more than once
C19_BridgeKept ==
    [][/\ \A c \in DOMAIN messageBridgeMap :
              /\ c \in DOMAIN messageBridgeMap'
              /\ messageBridgeMap'[c] = messageBridgeMap[c]
       /\ \A c \in Channels : listenStreams'[c] <= 1]_vars

\* a channel was attached, cleared and attached again and still has the one
\* subscription and the MessageBridge of its first attach
C19_Witness ==
    /\ proto.phase = "reattached"
    /\ proto.cfg2.ServiceChannel = proto.cfg.ServiceChannel
    /\ Len(Endpoints(proto.cfg.ServiceChannel)) = 1
    /\ listenStreams[proto.cfg.ServiceChannel] = 1
    /\ proto.cfg.ServiceChannel \in DOMAIN messageBridgeMap

\* C11 as claimed: the subscription callback never waits in its send; when the
\* queue is full it drops the message and returns
C11_CallbackNeverWaits == \A c \in Channels : blocked[c] = <<>>

\* where the message with correlation id id is while it is on its way
InTransit(id, c) ==
    \/ id \in SeqToSet(payloadChannel[c])
    \/ id \in SeqToSet(blocked[c])
    \/ id \in broadcast[c]

C20_BridgesTornDown ==
    [][/\ stopsReturned' > stopsReturned => DOMAIN messageBridgeMap' = {}
       /\ stopsReturned > 0 => payloadChannel' = payloadChannel]_vars

\* C15 as claimed: StartServer has not returned unless a signal was taken from
\* the signal channel, and once the signal goroutine is through StopServer and
\* has closed connClosed, StartServer returns in the end
C15_ReturnsAfterSignal ==
    /\ [](pc.main = "returned" => pc.signal = "done")
    /\ (pc.signal = "done") ~> (pc.main = "returned")

\* C21 as claimed: every key of endpointHandlerMap has a route of its name in
\* the table in service, also when the attach ran between
\* clearHttpChannelBridgesForService returning and loadGlobalHttpHandler
C21_HandlersAreRouted ==
    \A key \in DOMAIN endpointHandlerMap :
        \E i \in 1..Len(router) : GetName(router[i]) = key

\* C23 as claimed: on the readiness channel no true follows a false
C23_NoOnlineAfterOffline ==
    \A i, j \in DOMAIN onlineEvents :
        (i < j /\ ~onlineEvents[i]) => ~onlineEvents[j]

\* C22 as claimed: the callback an attach registers never runs while
\* messageBridgeMap has no entry for its channel
C22_CallbackFindsBridge == ~panicked
====
